---- MODULE Spec2Model ----
(***************************************************************************)
(* A model of the Peer class of src/Peer.ts: a wrapper around a WebSocket  *)
(* client that polls a remote node for its status and its peers, merges    *)
(* every status report into a snapshot, and raises NODE_STUCK when the     *)
(* reported height has not advanced for more than 20 seconds.              *)
(*                                                                         *)
(* A JavaScript object is a function whose DOMAIN is the set of the        *)
(* properties the object carries, so "the report has no nonce" is          *)
(* "nonce" \notin DOMAIN report.  Date.now() is the variable now, in       *)
(* milliseconds.                                                           *)
(***************************************************************************)
EXTENDS Integers, Sequences, FiniteSets

\* ------------------------------------------------------------------ bounds
\* Date.now() when the Peer is constructed.
StartTime == 30000
\* The clock stops advancing MaxElapsed ms after construction.
MaxElapsed == 40002
\* Number of handleStatusUpdate calls the test driver makes.
MaxCalls == 4
\* Number of polling ticks with a transport call outstanding.
MaxInFlight == 2

\* --------------------------------------------------------------- constants
\* Peer.ts:124, the time without a height advance after which a node is stuck
StuckThreshold == 20000

\* ----------------------------------------------------------------- domains
Heights == {10, 11}
Nonces == {"B"}
\* the status reports a node sends: with or without a nonce, with or
\* without a height
Reports == [height : Heights, nonce : Nonces] \cup [height : Heights] \cup [nonce : Nonces]
\* the peer lists a node sends
PeerLists == {<<"p1">>, <<"p2">>}
\* the steps by which the clock advances between two readings: exactly the
\* threshold (not yet stuck) and one millisecond more (stuck)
Delays == {StuckThreshold, StuckThreshold + 1}
\* PeerOptions, reduced to the one property the class reads back: nonce?
OptionsSet == {[nonce |-> "A"], [ip |-> "10.0.0.1"]}

\* the value undefined, for a variable that otherwise holds an object
Undefined == [undefined |-> TRUE]
\* the value undefined, for an expression that otherwise is a string
UndefinedString == "undefined"

VARIABLES
    options,              \* Peer.options
    peers,                \* Peer.peers
    _lastHeightUpdate,    \* Peer._lastHeightUpdate
    _stuck,               \* Peer._stuck
    statusUpdateInterval, \* the timer of Peer.statusUpdateInterval: "armed" or "cleared"
    _state,               \* Peer._state
    _status,              \* Peer._status
    _httpActive,          \* Peer._httpActive
    _wsServerConnected,   \* Peer._wsServerConnected
    ws,                   \* the WsApi session: whether destroy() was called on it,
                          \* and how many getStatus / getPeers calls are outstanding
    httpProbe,            \* the http.getNodeStatus() promise of the constructor
    now,                  \* Date.now()
    emitted,              \* the events the last step emitted, in order
    calls,                \* the driver's record of its handleStatusUpdate calls
    listeners,            \* the subscribers of each event, in the order of their on() calls:
                          \* what each does when called, "returns" or "throws"
    delivered,            \* the subscribers the last step called, in order
    op                    \* the operation of the Peer that ran last

vars == <<options, peers, _lastHeightUpdate, _stuck, statusUpdateInterval, _state,
          _status, _httpActive, _wsServerConnected, ws, httpProbe, now, emitted, calls,
          listeners, delivered, op>>

\* ------------------------------------------------------------ pure helpers

\* a bug: the new report replaces the snapshot instead of being merged into it
ObjectAssign_Replace(target, source) == source

\* a bug: the merge keeps the greater of the two heights
ObjectAssign_KeepsGreaterHeight(target, source) ==
    [f \in DOMAIN target \cup DOMAIN source |->
        IF f \in DOMAIN source
        THEN IF f = "height" /\ f \in DOMAIN target /\ target[f] > source[f]
             THEN target[f]
             ELSE source[f]
        ELSE target[f]]

\* Object.assign(target, source): every own property of source is copied
\* over target, the other properties of target stay.
ObjectAssign(target, source) ==
    [f \in DOMAIN target \cup DOMAIN source |->
        IF f \in DOMAIN source THEN source[f] ELSE target[f]]

\* a bug: >= for >, so that a repeated height counts as an advance
HeightGreater_OrEqual(a, b) ==
    /\ "height" \in DOMAIN a
    /\ "height" \in DOMAIN b
    /\ a.height >= b.height

\* a.height > b.height; a comparison with undefined is false
HeightGreater(a, b) ==
    /\ "height" \in DOMAIN a
    /\ "height" \in DOMAIN b
    /\ a.height > b.height

\* the condition of the first branch of handleStatusUpdate
heightAdvanced(status) ==
    \/ _status = Undefined
    \/ HeightGreater(status, _status)

\* a bug: the test of the stuck flag is missing, NODE_STUCK is level-triggered
becomesStuck_LevelTriggered(status) ==
    /\ ~heightAdvanced(status)
    /\ now - _lastHeightUpdate > StuckThreshold

\* a bug: >= for >, stuck as soon as the threshold is reached
becomesStuck_AtThreshold(status) ==
    /\ ~heightAdvanced(status)
    /\ ~_stuck
    /\ now - _lastHeightUpdate >= StuckThreshold

\* a bug: a zero too many in the threshold
becomesStuck_LongThreshold(status) ==
    /\ ~heightAdvanced(status)
    /\ ~_stuck
    /\ now - _lastHeightUpdate > 10 * StuckThreshold

\* the condition of the second branch of handleStatusUpdate
becomesStuck(status) ==
    /\ ~heightAdvanced(status)
    /\ ~_stuck
    /\ now - _lastHeightUpdate > StuckThreshold

\* get nonce()
nonce ==
    IF _status # Undefined
    THEN IF "nonce" \in DOMAIN _status THEN _status.nonce ELSE UndefinedString
    ELSE IF "nonce" \in DOMAIN options /\ options.nonce # ""
         THEN options.nonce
         ELSE UndefinedString

\* get status()
status == _status

\* get state()
state == _state

\* the events
NodeStuck == [type |-> "NODE_STUCK"]
StatusUpdated(s) == [type |-> "STATUS_UPDATED", payload |-> s]
PeersUpdated(p) == [type |-> "PEERS_UPDATED", payload |-> p]

\* EventEmitter.emit(type): the subscribers of the event are called in order;
\* an exception thrown by one of them leaves emit, and the subscribers after
\* it are not called.
EmitThrows(type) ==
    \E i \in 1..Len(listeners[type]) : listeners[type][i] = "throws"

\* the number of subscribers that emit(type) calls
Called(type) ==
    IF EmitThrows(type)
    THEN CHOOSE i \in 1..Len(listeners[type]) :
            /\ listeners[type][i] = "throws"
            /\ \A j \in 1..(i - 1) : listeners[type][j] = "returns"
    ELSE Len(listeners[type])

\* the calls of subscribers that emit(type) makes
Deliveries(type) == [i \in 1..Called(type) |-> [type |-> type, listener |-> i]]

\* subscribers that return
QuietListeners ==
    [NODE_STUCK |-> <<"returns">>, STATUS_UPDATED |-> <<"returns">>,
     PEERS_UPDATED |-> <<"returns">>]

\* subscribers of which the first one of NODE_STUCK, or of STATUS_UPDATED, or
\* of both may throw, each followed by one that returns
ListenerSets ==
    {[NODE_STUCK |-> <<a, "returns">>, STATUS_UPDATED |-> <<b, "returns">>,
      PEERS_UPDATED |-> <<"returns">>] : a, b \in {"returns", "throws"}}

\* ------------------------------------------------------------------- Init
\* the Peer after its constructor
InitPeer ==
    /\ options \in OptionsSet
    /\ peers = <<>>
    /\ _lastHeightUpdate = 0
    /\ _stuck = FALSE
    /\ statusUpdateInterval = "armed"
    /\ _state = "Offline"
    /\ _status = Undefined
    /\ _httpActive = FALSE
    /\ _wsServerConnected = FALSE
    /\ ws = [destroyed |-> FALSE, getStatus |-> 0, getPeers |-> 0]
    /\ httpProbe = "pending"
    /\ now = StartTime
    /\ emitted = <<>>
    /\ calls = <<>>
    /\ delivered = <<>>
    /\ op = "new"

\* the Peer after its constructor, with subscribers that do not throw
Init ==
    /\ InitPeer
    /\ listeners = QuietListeners

\* the Peer after its constructor, with subscribers that may throw
InitThrow ==
    /\ InitPeer
    /\ listeners \in ListenerSets

\* NODE_STUCK is emitted and one of its subscribers throws: the exception
\* leaves handleStatusUpdate at line 126
nodeStuckThrows(report) == becomesStuck(report) /\ EmitThrows("NODE_STUCK")

\* handleStatusUpdate(status) throws
handleStatusUpdateThrows(report) ==
    nodeStuckThrows(report) \/ EmitThrows("STATUS_UPDATED")

\* ---------------------------------------------------------------- actions

\* a bug: the height-advance branch forgets to clear the stuck flag
handleStatusUpdate_KeepsStuck(report) ==
    /\ _lastHeightUpdate' = IF heightAdvanced(report) THEN now ELSE _lastHeightUpdate
    /\ _stuck' = IF heightAdvanced(report) THEN _stuck
                 ELSE IF becomesStuck(report) THEN TRUE ELSE _stuck
    /\ _status' = IF nodeStuckThrows(report) THEN _status
                  ELSE ObjectAssign(IF _status = Undefined THEN report ELSE _status, report)
    /\ emitted' = (IF becomesStuck(report) THEN <<NodeStuck>> ELSE <<>>)
                      \o (IF nodeStuckThrows(report) THEN <<>> ELSE <<StatusUpdated(report)>>)
    /\ delivered' = (IF becomesStuck(report) THEN Deliveries("NODE_STUCK") ELSE <<>>)
                      \o (IF nodeStuckThrows(report) THEN <<>> ELSE Deliveries("STATUS_UPDATED"))

\* a bug: STATUS_UPDATED carries the merged snapshot instead of the report
handleStatusUpdate_EmitsSnapshot(report) ==
    /\ _lastHeightUpdate' = IF heightAdvanced(report) THEN now ELSE _lastHeightUpdate
    /\ _stuck' = IF heightAdvanced(report) THEN FALSE
                 ELSE IF becomesStuck(report) THEN TRUE ELSE _stuck
    /\ _status' = IF nodeStuckThrows(report) THEN _status
                  ELSE ObjectAssign(IF _status = Undefined THEN report ELSE _status, report)
    /\ emitted' = (IF becomesStuck(report) THEN <<NodeStuck>> ELSE <<>>)
                      \o (IF nodeStuckThrows(report) THEN <<>> ELSE <<StatusUpdated(_status')>>)
    /\ delivered' = (IF becomesStuck(report) THEN Deliveries("NODE_STUCK") ELSE <<>>)
                      \o (IF nodeStuckThrows(report) THEN <<>> ELSE Deliveries("STATUS_UPDATED"))

\* handleStatusUpdate(status): the assignments to the fields of the Peer and
\* the events emitted, for the caller to conjoin with its own changes.  The
\* fields are assigned up to the emit that throws, if one does.
handleStatusUpdate(report) ==
    /\ _lastHeightUpdate' = IF heightAdvanced(report) THEN now ELSE _lastHeightUpdate
    /\ _stuck' = IF heightAdvanced(report) THEN FALSE
                 ELSE IF becomesStuck(report) THEN TRUE ELSE _stuck
    /\ _status' = IF nodeStuckThrows(report) THEN _status
                  ELSE ObjectAssign(IF _status = Undefined THEN report ELSE _status, report)
    /\ emitted' = (IF becomesStuck(report) THEN <<NodeStuck>> ELSE <<>>)
                      \o (IF nodeStuckThrows(report) THEN <<>> ELSE <<StatusUpdated(report)>>)
    /\ delivered' = (IF becomesStuck(report) THEN Deliveries("NODE_STUCK") ELSE <<>>)
                      \o (IF nodeStuckThrows(report) THEN <<>> ELSE Deliveries("STATUS_UPDATED"))

\* time passes
TimePasses(d) ==
    /\ op' = "TimePasses"
    /\ now + d <= StartTime + MaxElapsed
    /\ now' = now + d
    /\ emitted' = <<>>
    /\ delivered' = <<>>
    /\ UNCHANGED <<listeners, options, peers, _lastHeightUpdate, _stuck, statusUpdateInterval, _state,
                   _status, _httpActive, _wsServerConnected, ws, httpProbe, calls>>

\* a caller of the public method handleStatusUpdate, which records what it
\* passed, when, what the snapshot and the stuck flag were before, and which
\* events it received
CallHandleStatusUpdate(report) ==
    /\ op' = "CallHandleStatusUpdate"
    /\ Len(calls) < MaxCalls
    /\ handleStatusUpdate(report)
    /\ calls' = Append(calls, [report |-> report, at |-> now, before |-> _status,
                               stuckBefore |-> _stuck, events |-> emitted'])
    /\ UNCHANGED <<listeners, options, peers, statusUpdateInterval, _state, _httpActive,
                   _wsServerConnected, ws, httpProbe, now>>

NextCalls ==
    \/ \E d \in Delays : TimePasses(d)
    \/ \E report \in Reports : CallHandleStatusUpdate(report)

\* the Peer driven through its public method under a controlled clock
SpecCalls == Init /\ [][NextCalls]_vars

\* -------------------------------------------------- the WebSocket session
\* WsApi is not part of the sources at hand; what follows is what the
\* specification says of the transport session.

\* a getStatus or getPeers call is issued: one more call is outstanding
WsCall(call) == [ws EXCEPT ![call] = @ + 1]

\* an outstanding call settles (resolves or rejects): nothing cancels it,
\* neither a disconnect nor destroy()
WsSettles(call) == ws[call] > 0

WsSettled(call) == [ws EXCEPT ![call] = @ - 1]

\* ws.destroy(): the session releases its resources
WsDestroy == [ws EXCEPT !.destroyed = TRUE]

\* ------------------------------------------------ the running Peer: actions

\* a bug: the tick issues both fetches at once instead of one after the other
updateStatus_ParallelFetch ==
    /\ op' = "updateStatus"
    /\ statusUpdateInterval = "armed"
    /\ IF _state # "Online"
       THEN ws' = ws
       ELSE /\ ws.getStatus + ws.getPeers < MaxInFlight
            /\ ws' = [WsCall("getStatus") EXCEPT !.getPeers = @ + 1]
    /\ emitted' = <<>>
    /\ delivered' = <<>>
    /\ UNCHANGED <<listeners, options, peers, _lastHeightUpdate, _stuck, statusUpdateInterval, _state,
                   _status, _httpActive, _wsServerConnected, httpProbe, now, calls>>

\* updateStatus(), run by the interval timer: nothing when not Online,
\* otherwise ws.getStatus() is issued
updateStatus ==
    /\ op' = "updateStatus"
    /\ statusUpdateInterval = "armed"
    /\ IF _state # "Online"
       THEN ws' = ws
       ELSE /\ ws.getStatus + ws.getPeers < MaxInFlight
            /\ ws' = WsCall("getStatus")
    /\ emitted' = <<>>
    /\ delivered' = <<>>
    /\ UNCHANGED <<listeners, options, peers, _lastHeightUpdate, _stuck, statusUpdateInterval, _state,
                   _status, _httpActive, _wsServerConnected, httpProbe, now, calls>>

\* getStatus() resolved: .then(status => this.handleStatusUpdate(status))
\* and .then(() => this.ws.getPeers()); an exception of handleStatusUpdate
\* rejects the chain, which skips to .catch(err => console.warn(...))
getStatusThen(report) ==
    /\ op' = "getStatusThen"
    /\ WsSettles("getStatus")
    /\ handleStatusUpdate(report)
    /\ ws' = IF handleStatusUpdateThrows(report)
             THEN WsSettled("getStatus")
             ELSE [WsSettled("getStatus") EXCEPT !.getPeers = @ + 1]
    /\ UNCHANGED <<listeners, options, peers, statusUpdateInterval, _state, _httpActive,
                   _wsServerConnected, httpProbe, now, calls>>

\* a bug: a failed fetch cancels the timer
getStatusCatch_ClearsTimer ==
    /\ op' = "getStatusCatch"
    /\ WsSettles("getStatus")
    /\ ws' = WsSettled("getStatus")
    /\ statusUpdateInterval' = "cleared"
    /\ emitted' = <<>>
    /\ delivered' = <<>>
    /\ UNCHANGED <<listeners, options, peers, _lastHeightUpdate, _stuck, _state,
                   _status, _httpActive, _wsServerConnected, httpProbe, now, calls>>

\* getStatus() rejected: the chain skips to .catch(err => console.warn(...))
getStatusCatch ==
    /\ op' = "getStatusCatch"
    /\ WsSettles("getStatus")
    /\ ws' = WsSettled("getStatus")
    /\ emitted' = <<>>
    /\ delivered' = <<>>
    /\ UNCHANGED <<listeners, options, peers, _lastHeightUpdate, _stuck, statusUpdateInterval, _state,
                   _status, _httpActive, _wsServerConnected, httpProbe, now, calls>>

\* a bug: the fetched peers are added to the list instead of replacing it
getPeersThen_Appends(res) ==
    /\ op' = "getPeersThen"
    /\ WsSettles("getPeers")
    /\ ws' = WsSettled("getPeers")
    /\ peers' = peers \o res.peers
    /\ emitted' = <<PeersUpdated(res.peers)>>
    /\ delivered' = Deliveries("PEERS_UPDATED")
    /\ UNCHANGED <<listeners, options, _lastHeightUpdate, _stuck, statusUpdateInterval, _state,
                   _status, _httpActive, _wsServerConnected, httpProbe, now, calls>>

\* getPeers() resolved: .then(res => { this.peers = res.peers; emit })
getPeersThen(res) ==
    /\ op' = "getPeersThen"
    /\ WsSettles("getPeers")
    /\ ws' = WsSettled("getPeers")
    /\ peers' = res.peers
    /\ emitted' = <<PeersUpdated(res.peers)>>
    /\ delivered' = Deliveries("PEERS_UPDATED")
    /\ UNCHANGED <<listeners, options, _lastHeightUpdate, _stuck, statusUpdateInterval, _state,
                   _status, _httpActive, _wsServerConnected, httpProbe, now, calls>>

\* getPeers() rejected: .catch(err => console.warn(...))
getPeersCatch ==
    /\ op' = "getPeersCatch"
    /\ WsSettles("getPeers")
    /\ ws' = WsSettled("getPeers")
    /\ emitted' = <<>>
    /\ delivered' = <<>>
    /\ UNCHANGED <<listeners, options, peers, _lastHeightUpdate, _stuck, statusUpdateInterval, _state,
                   _status, _httpActive, _wsServerConnected, httpProbe, now, calls>>

onClientConnect ==
    /\ op' = "onClientConnect"
    /\ _state' = "Online"
    /\ emitted' = <<>>
    /\ delivered' = <<>>
    /\ UNCHANGED <<listeners, options, peers, _lastHeightUpdate, _stuck, statusUpdateInterval,
                   _status, _httpActive, _wsServerConnected, ws, httpProbe, now, calls>>

\* a bug: losing the outgoing connection also drops the incoming-link flag
onClientDisconnect_DropsServerLink ==
    /\ op' = "onClientDisconnect"
    /\ _state' = "Offline"
    /\ _wsServerConnected' = FALSE
    /\ emitted' = <<>>
    /\ delivered' = <<>>
    /\ UNCHANGED <<listeners, options, peers, _lastHeightUpdate, _stuck, statusUpdateInterval,
                   _status, _httpActive, ws, httpProbe, now, calls>>

onClientDisconnect ==
    /\ op' = "onClientDisconnect"
    /\ _state' = "Offline"
    /\ emitted' = <<>>
    /\ delivered' = <<>>
    /\ UNCHANGED <<listeners, options, peers, _lastHeightUpdate, _stuck, statusUpdateInterval,
                   _status, _httpActive, _wsServerConnected, ws, httpProbe, now, calls>>

\* a bug: a connection error marks the peer Offline
onClientError_GoesOffline ==
    /\ op' = "onClientError"
    /\ _state' = "Offline"
    /\ emitted' = <<>>
    /\ delivered' = <<>>
    /\ UNCHANGED <<listeners, options, peers, _lastHeightUpdate, _stuck, statusUpdateInterval,
                   _status, _httpActive, _wsServerConnected, ws, httpProbe, now, calls>>

\* onClientError(error): console.error only
onClientError ==
    /\ op' = "onClientError"
    /\ emitted' = <<>>
    /\ delivered' = <<>>
    /\ UNCHANGED <<listeners, options, peers, _lastHeightUpdate, _stuck, statusUpdateInterval, _state,
                   _status, _httpActive, _wsServerConnected, ws, httpProbe, now, calls>>

setWebsocketServerConnected(connected) ==
    /\ op' = "setWebsocketServerConnected"
    /\ _wsServerConnected' = connected
    /\ emitted' = <<>>
    /\ delivered' = <<>>
    /\ UNCHANGED <<listeners, options, peers, _lastHeightUpdate, _stuck, statusUpdateInterval, _state,
                   _status, _httpActive, ws, httpProbe, now, calls>>

\* a bug: destroy() also forgets the status
destroy_ClearsStatus ==
    /\ op' = "destroy"
    /\ statusUpdateInterval = "armed"
    /\ statusUpdateInterval' = "cleared"
    /\ ws' = WsDestroy
    /\ _status' = Undefined
    /\ emitted' = <<>>
    /\ delivered' = <<>>
    /\ UNCHANGED <<listeners, options, peers, _lastHeightUpdate, _stuck, _state,
                   _httpActive, _wsServerConnected, httpProbe, now, calls>>

\* a bug: destroy() closes the session but forgets clearInterval
destroy_KeepsTimer ==
    /\ op' = "destroy"
    /\ ~ws.destroyed
    /\ ws' = WsDestroy
    /\ emitted' = <<>>
    /\ delivered' = <<>>
    /\ UNCHANGED <<listeners, options, peers, _lastHeightUpdate, _stuck, statusUpdateInterval, _state,
                   _status, _httpActive, _wsServerConnected, httpProbe, now, calls>>

\* destroy(): clearInterval and ws.destroy(); called once
destroy ==
    /\ op' = "destroy"
    /\ statusUpdateInterval = "armed"
    /\ statusUpdateInterval' = "cleared"
    /\ ws' = WsDestroy
    /\ emitted' = <<>>
    /\ delivered' = <<>>
    /\ UNCHANGED <<listeners, options, peers, _lastHeightUpdate, _stuck, _state,
                   _status, _httpActive, _wsServerConnected, httpProbe, now, calls>>

\* the constructor's http.getNodeStatus().then(() => (this._httpActive = true))
httpProbeThen ==
    /\ op' = "httpProbeThen"
    /\ httpProbe = "pending"
    /\ httpProbe' = "settled"
    /\ _httpActive' = TRUE
    /\ emitted' = <<>>
    /\ delivered' = <<>>
    /\ UNCHANGED <<listeners, options, peers, _lastHeightUpdate, _stuck, statusUpdateInterval, _state,
                   _status, _wsServerConnected, ws, now, calls>>

\* the constructor's http.getNodeStatus() ... .catch(() => {})
httpProbeCatch ==
    /\ op' = "httpProbeCatch"
    /\ httpProbe = "pending"
    /\ httpProbe' = "settled"
    /\ emitted' = <<>>
    /\ delivered' = <<>>
    /\ UNCHANGED <<listeners, options, peers, _lastHeightUpdate, _stuck, statusUpdateInterval, _state,
                   _status, _httpActive, _wsServerConnected, ws, now, calls>>

Next ==
    \/ \E d \in Delays : TimePasses(d)
    \/ updateStatus
    \/ \E report \in Reports : getStatusThen(report)
    \/ getStatusCatch
    \/ \E p \in PeerLists : getPeersThen([peers |-> p])
    \/ getPeersCatch
    \/ onClientConnect
    \/ onClientDisconnect
    \/ onClientError
    \/ \E connected \in BOOLEAN : setWebsocketServerConnected(connected)
    \/ destroy
    \/ httpProbeThen
    \/ httpProbeCatch

\* the Peer as it runs: timer, transport session, callbacks, destroy
Spec == Init /\ [][Next]_vars

NextThrow ==
    \/ \E d \in Delays : TimePasses(d)
    \/ updateStatus
    \/ \E report \in Reports : getStatusThen(report)
    \/ getStatusCatch
    \/ \E p \in PeerLists : getPeersThen([peers |-> p])
    \/ getPeersCatch
    \/ onClientConnect
    \/ onClientDisconnect

\* the polling loop of a Peer whose subscribers may throw
SpecThrow == InitThrow /\ [][NextThrow]_vars

\* ================================================================== claims

Fields == {"height", "nonce"}

Max(S) == CHOOSE x \in S : \A y \in S : y <= x

\* the calls of the record that passed a report carrying field f
CallsWith(f) == {i \in 1..Len(calls) : f \in DOMAIN calls[i].report}

\* call i of the record took the height-advance branch: there was no status
\* before it, or its report's height was greater than the stored height
TookAdvanceBranch(i) ==
    \/ calls[i].before = Undefined
    \/ HeightGreater(calls[i].report, calls[i].before)

\* call i of the record emitted NODE_STUCK
EmittedNodeStuck(i) ==
    \E k \in 1..Len(calls[i].events) : calls[i].events[k].type = "NODE_STUCK"

\* C1: after any sequence of reports passed to handleStatusUpdate, every field
\* of the snapshot holds the value of the most recent report that carried the
\* field, and a field no report carried is not in the snapshot.
C1_LatestReportWins ==
    Len(calls) > 0 =>
        /\ _status # Undefined
        /\ \A f \in Fields :
              IF CallsWith(f) = {}
              THEN f \notin DOMAIN _status
              ELSE /\ f \in DOMAIN _status
                   /\ _status[f] = calls[Max(CallsWith(f))].report[f]

\* C1 witness: the nonce came with the first report only, the height changed
\* in later reports, and the snapshot has both.
C1_Witness ==
    /\ Len(calls) = 3
    /\ CallsWith("nonce") = {1}
    /\ CallsWith("height") = {1, 2, 3}
    /\ calls[1].report.height # calls[3].report.height
    /\ _status = [height |-> calls[3].report.height, nonce |-> calls[1].report.nonce]

\* C2: NODE_STUCK is edge-triggered: between any two calls that emitted it
\* there is a call that took the height-advance branch, and a call that finds
\* the stuck flag set and does not advance the height emits no NODE_STUCK.
C2_StuckEdgeTriggered ==
    /\ \A i, j \in 1..Len(calls) :
          (i < j /\ EmittedNodeStuck(i) /\ EmittedNodeStuck(j)) =>
              \E k \in (i + 1)..(j - 1) : TookAdvanceBranch(k)
    /\ \A i \in 1..Len(calls) :
          (calls[i].stuckBefore /\ ~TookAdvanceBranch(i)) => ~EmittedNodeStuck(i)

\* C2 witness: NODE_STUCK twice with a height advance in between, and a
\* non-advancing report taken while stuck.
C2_Witness ==
    /\ Len(calls) = 4
    /\ EmittedNodeStuck(2)
    /\ TookAdvanceBranch(3)
    /\ EmittedNodeStuck(4)

\* the scenario of C3: a fresh monitor, then three reports of height 10, each
\* more than 20 seconds after the one before
ThreeReportsOfHeight10 ==
    /\ Len(calls) >= 3
    /\ calls[1].before = Undefined
    /\ \A i \in 1..3 : "height" \in DOMAIN calls[i].report /\ calls[i].report.height = 10
    /\ \A i \in 2..3 : calls[i].at - calls[i - 1].at > 20000

\* C3 as stated: in that scenario exactly one NODE_STUCK is emitted, during
\* the third report.
C3_StuckOnThirdReport ==
    ThreeReportsOfHeight10 => {i \in 1..3 : EmittedNodeStuck(i)} = {3}

\* C3 as amended: in that scenario exactly one NODE_STUCK is emitted, during
\* the second report.
C3_StuckOnSecondReport ==
    ThreeReportsOfHeight10 =>
        /\ {i \in 1..3 : EmittedNodeStuck(i)} = {2}
        /\ \A i \in 1..3 :
              Cardinality({k \in 1..Len(calls[i].events) :
                              calls[i].events[k].type = "NODE_STUCK"}) <= 1

\* C3 witness: the three reports have been ingested.
C3_Witness ==
    /\ Len(calls) = 3
    /\ ThreeReportsOfHeight10
    /\ op = "CallHandleStatusUpdate"

\* C4: a report with a height greater than the stored one, ingested while the
\* stuck flag is set, clears the flag, sets lastHeightUpdate to the current
\* time and emits STATUS_UPDATED and nothing else.
C4_RecoveryIsSilent ==
    [][(/\ Len(calls') = Len(calls) + 1
        /\ _stuck
        /\ HeightGreater(calls'[Len(calls')].report, _status))
       => (/\ ~_stuck'
           /\ _lastHeightUpdate' = now'
           /\ emitted' = <<StatusUpdated(calls'[Len(calls')].report)>>)]_vars

\* C4 witness: the last call found the flag set and carried a greater height.
C4_Witness ==
    /\ op = "CallHandleStatusUpdate"
    /\ calls[Len(calls)].stuckBefore
    /\ HeightGreater(calls[Len(calls)].report, calls[Len(calls)].before)
    /\ ~_stuck

\* C5: the nonce accessor is the nonce of the latest status if it has one,
\* otherwise the nonce given at construction, otherwise undefined.
C5_NoncePriority ==
    nonce = IF _status # Undefined /\ "nonce" \in DOMAIN _status
            THEN _status.nonce
            ELSE IF "nonce" \in DOMAIN options
                 THEN options.nonce
                 ELSE UndefinedString

\* the types of the events the last step emitted
EmittedTypes(evs) == {evs[k].type : k \in 1..Len(evs)}

\* C6: _wsServerConnected changes only through setWebsocketServerConnected,
\* and setWebsocketServerConnected leaves the connection state unchanged.
C6_ServerLinkIndependent ==
    [][/\ _wsServerConnected' # _wsServerConnected => op' = "setWebsocketServerConnected"
       /\ op' = "setWebsocketServerConnected" => _state' = _state]_vars

\* C6 witness: the transport disconnected after setWebsocketServerConnected(true):
\* the flag is still true and the state is Offline.
C6_Witness ==
    /\ op = "onClientDisconnect"
    /\ _wsServerConnected
    /\ _state = "Offline"

\* C7: while the connection state is Offline the polling loop issues no
\* getStatus or getPeers call and emits no STATUS_UPDATED or PEERS_UPDATED.
C7_OfflineNoPolling ==
    [][_state = "Offline" =>
          /\ ws'.getStatus <= ws.getStatus
          /\ ws'.getPeers <= ws.getPeers
          /\ EmittedTypes(emitted') \cap {"STATUS_UPDATED", "PEERS_UPDATED"} = {}]_vars

\* C8: after destroy() no STATUS_UPDATED, PEERS_UPDATED or NODE_STUCK event
\* is emitted.
C8_NoEventAfterDestroy ==
    [][statusUpdateInterval = "cleared" => emitted' = <<>>]_vars

\* C9: once a handleStatusUpdate call has completed the status is defined,
\* and it stays defined whatever happens afterwards.
C9_StatusStaysDefined ==
    [][(op' = "getStatusThen" \/ _status # Undefined) => _status' # Undefined]_vars

\* C9 witness: a status was received, then the peer went Offline and was
\* destroyed.
C9_Witness ==
    /\ op = "destroy"
    /\ _state = "Offline"
    /\ _status # Undefined

\* C10: the stuck flag is set only when a status has been received and more
\* than 20 seconds have passed since lastHeightUpdate, and it goes from false
\* to true only in a handleStatusUpdate call that did not advance the height
\* and found that inequality true.
C10_StuckOnlyAfterTimeout ==
    /\ [](_stuck => (_status # Undefined /\ now - _lastHeightUpdate > 20000))
    /\ [][(~_stuck /\ _stuck') =>
             /\ op' = "getStatusThen"
             /\ _status # Undefined
             /\ ~HeightGreater(emitted'[Len(emitted')].payload, _status)
             /\ now - _lastHeightUpdate > 20000
             /\ now' = now]_vars

\* C10 witness: the flag is set and the clock has moved on since.
C10_Witness ==
    /\ _stuck
    /\ op = "TimePasses"

\* the fields of the Peer that a polling tick may write
PeerFields == <<peers, _lastHeightUpdate, _stuck, _status, _state, statusUpdateInterval>>

\* C12: a failed fetch aborts only its own tick: after a failed getStatus or
\* getPeers the status, the stuck flag, lastHeightUpdate and the peers are
\* what they were, no event is emitted, the timer stays armed if it was, and
\* only the failed call leaves the set of outstanding calls, so the next tick
\* starts from the state the failed one started from.
C12_FailedFetchAbortsOnlyItsTick ==
    [][/\ op' = "getStatusCatch" =>
             /\ UNCHANGED PeerFields
             /\ emitted' = <<>>
             /\ delivered' = <<>>
             /\ ws' = [ws EXCEPT !.getStatus = @ - 1]
       /\ op' = "getPeersCatch" =>
             /\ UNCHANGED PeerFields
             /\ emitted' = <<>>
             /\ delivered' = <<>>
             /\ ws' = [ws EXCEPT !.getPeers = @ - 1]]_vars

\* C12 witness: a tick whose fetches succeeded (status ingested, peers
\* updated) is followed by a failed getStatus; the timer is armed, the peer
\* Online, the status and the peers still there.
C12_Witness ==
    /\ op = "getStatusCatch"
    /\ statusUpdateInterval = "armed"
    /\ _state = "Online"
    /\ _status # Undefined
    /\ peers # <<>>

\* C13: the connection state starts Offline; on-connect sets it to Online,
\* on-disconnect to Offline, and no other operation changes it.
C13_StateFollowsTransportCallbacks ==
    /\ _state = "Offline"
    /\ [][/\ op' = "onClientConnect" => _state' = "Online"
          /\ op' = "onClientDisconnect" => _state' = "Offline"
          /\ op' \notin {"onClientConnect", "onClientDisconnect"} => _state' = _state]_vars

\* C13 witness: the peer is Online and a connection error has just been
\* reported, after the HTTP probe failed.
C13_Witness ==
    /\ op = "onClientError"
    /\ _state = "Online"
    /\ httpProbe = "settled"
    /\ ~_httpActive

\* C14: the number of polling ticks in flight stays below a fixed bound.
\* The bound tried is the cap that the model itself puts on outstanding
\* calls: reaching it, whatever it is set to, shows that the code sets none.
C14_TicksInFlightBounded ==
    ws.getStatus + ws.getPeers < MaxInFlight

\* C15: peers is empty at first; a resolved getPeers replaces it by the list
\* of the response and emits one PEERS_UPDATED carrying that list; nothing
\* else changes peers.
C15_PeersReplaced ==
    /\ peers = <<>>
    /\ [][/\ op' = "getPeersThen" =>
                /\ peers' \in PeerLists
                /\ emitted' = <<PeersUpdated(peers')>>
          /\ op' # "getPeersThen" => peers' = peers]_vars

\* C15 witness: a peer list has been stored by one tick while the getPeers of
\* another is still outstanding.
C15_Witness ==
    /\ op = "getPeersThen"
    /\ peers = <<"p2">>
    /\ _status # Undefined
    /\ ws.getPeers > 0

\* C16: within a tick getPeers is issued only when getStatus has resolved and
\* handleStatusUpdate has returned, in the step that emits STATUS_UPDATED
\* (after NODE_STUCK, if any); PEERS_UPDATED is emitted only for a getPeers
\* call issued that way.
C16_StatusBeforePeers ==
    [][/\ ws'.getPeers > ws.getPeers =>
             /\ op' = "getStatusThen"
             /\ ws'.getStatus = ws.getStatus - 1
             /\ ws'.getPeers = ws.getPeers + 1
             /\ emitted'[Len(emitted')].type = "STATUS_UPDATED"
             /\ \A k \in 1..(Len(emitted') - 1) : emitted'[k].type = "NODE_STUCK"
       /\ "PEERS_UPDATED" \in {emitted'[k].type : k \in 1..Len(emitted')} =>
             /\ ws.getPeers > 0
             /\ ws'.getPeers = ws.getPeers - 1
             /\ ws'.getStatus = ws.getStatus
             /\ Len(emitted') = 1
       /\ op' = "updateStatus" => ws'.getPeers = ws.getPeers]_vars

\* C16 witness: a tick has emitted NODE_STUCK, STATUS_UPDATED and now
\* PEERS_UPDATED.
C16_Witness ==
    /\ op = "getPeersThen"
    /\ emitted = <<PeersUpdated(peers)>>
    /\ _stuck

\* C17: every handleStatusUpdate call emits STATUS_UPDATED exactly once, as
\* its last event, with the report passed in as payload, also when the merged
\* snapshot is something else.
C17_PayloadIsReport ==
    \A i \in 1..Len(calls) :
        LET evs == calls[i].events IN
        /\ Len(evs) >= 1
        /\ evs[Len(evs)] = StatusUpdated(calls[i].report)
        /\ \A k \in 1..(Len(evs) - 1) : evs[k].type # "STATUS_UPDATED"

\* C17 witness: the last call's report lacks a field that the merged
\* snapshot has.
C17_Witness ==
    /\ Len(calls) >= 2
    /\ op = "CallHandleStatusUpdate"
    /\ DOMAIN calls[Len(calls)].report # DOMAIN _status
    /\ emitted[Len(emitted)].payload # _status

\* C18: destroy() cancels the timer and closes the transport session; after
\* it no tick runs and no new getStatus call is issued.
C18_DestroyStopsTicks ==
    [][/\ op' = "destroy" => (statusUpdateInterval' = "cleared" /\ ws'.destroyed)
       /\ ws.destroyed =>
             /\ op' # "updateStatus"
             /\ ws'.getStatus <= ws.getStatus
             /\ ws'.getStatus + ws'.getPeers <= ws.getStatus + ws.getPeers]_vars

\* C18 witness: destroyed while Online with nothing outstanding, and time has
\* passed since.
C18_Witness ==
    /\ ws.destroyed
    /\ _state = "Online"
    /\ op = "TimePasses"
    /\ ws.getStatus + ws.getPeers = 0

\* call i of the record came more than 20 seconds after the call before it
\* and its report did not advance the height
NonAdvancingAfterGap(i) ==
    /\ i >= 2
    /\ calls[i].at - calls[i - 1].at > 20000
    /\ ~("height" \in DOMAIN calls[i].report /\ "height" \in DOMAIN calls[i].before
         /\ calls[i].report.height > calls[i].before.height)

\* while no report is ingested the stuck flag and lastHeightUpdate do not
\* change and NODE_STUCK is not emitted
NothingWithoutReport ==
    op' # "CallHandleStatusUpdate" =>
        /\ _stuck' = _stuck
        /\ _lastHeightUpdate' = _lastHeightUpdate
        /\ emitted' = <<>>

C20_AdvanceAgainstPreviousSnapshot ==
    [][Len(calls') = Len(calls) + 1 =>
          LET report == calls'[Len(calls')].report IN
          /\ "height" \in DOMAIN report =>
                ("height" \in DOMAIN _status' /\ _status'.height = report.height)
          /\ ("height" \in DOMAIN report /\ _status # Undefined /\ "height" \in DOMAIN _status
              /\ report.height > _status.height) =>
                (_lastHeightUpdate' = now /\ ~_stuck')]_vars

\* C20 witness: heights 11, 10, 11: the third report advances against the
\* lowered height, although the height is no greater than the first one.
C20_Witness ==
    /\ Len(calls) = 3
    /\ \A i \in 1..3 : "height" \in DOMAIN calls[i].report
    /\ calls[1].report.height = 11
    /\ calls[2].report.height = 10
    /\ calls[3].report.height = 11
    /\ calls[3].stuckBefore
    /\ ~_stuck
    /\ _lastHeightUpdate = calls[3].at
    /\ calls[3].at > calls[1].at

\* C11: a subscriber that throws does not break the emitting operation: when
\* a tick ingests a report, the report is merged into the status,
\* STATUS_UPDATED is emitted and reaches every subscriber that does not throw,
\* and the peer-list fetch is issued.
C11_ThrowingSubscriberIsolated ==
    [][op' = "getStatusThen" =>
          /\ Len(emitted') >= 1
          /\ emitted'[Len(emitted')].type = "STATUS_UPDATED"
          /\ LET report == emitted'[Len(emitted')].payload IN
                /\ _status' # Undefined
                /\ \A f \in DOMAIN report : f \in DOMAIN _status' /\ _status'[f] = report[f]
          /\ \A i \in 1..Len(listeners.STATUS_UPDATED) :
                listeners.STATUS_UPDATED[i] = "returns" =>
                    \E k \in 1..Len(delivered') :
                        delivered'[k] = [type |-> "STATUS_UPDATED", listener |-> i]
          /\ ws'.getPeers = ws.getPeers + 1]_vars

====
